---- MODULE Spec2Model ----
(***************************************************************************)
(* Champollion: the SearxNG search client (internal/search/searxng) and    *)
(* the environment resolver (pkg/env).                                     *)
(*                                                                         *)
(* Client.Search is modelled statement group by statement group, one       *)
(* action per group, each invocation with its own frame of locals, so      *)
(* that several invocations on one Client can interleave.  The network     *)
(* (http.DefaultClient.Do) and the response body stream are the            *)
(* environment: their outcome is chosen nondeterministically when Do is    *)
(* called.  Strings that the code only passes through are TLA+ strings;    *)
(* the base URL, which url.Parse inspects character by character, is a     *)
(* sequence of one-character strings.  A response body is its JSON         *)
(* document (or the marker "invalid" for bytes that are not JSON).         *)
(***************************************************************************)
EXTENDS Integers, Sequences, FiniteSets, TLC

VARIABLES
    client,   \* the Client value: [baseURL |-> ...]
    frame,    \* frame[i]: the locals, position and event log of invocation i
    env,      \* the process environment: env[k] = [set |-> BOOLEAN, value |-> STRING]
    lookup    \* the last GetVar call: its arguments and what it returned

vars == <<client, frame, env, lookup>>

(***************************************************************************)
(* Bounds                                                                  *)
(***************************************************************************)
MaxCalls == 2          \* concurrent invocations in SpecConc
MaxResults == 2        \* length of a "results" array in a body
MaxSuggestions == 2    \* length of a "suggestions" array in a body

Calls == 1..MaxCalls   \* the invocations of Search

(***************************************************************************)
(* Go values                                                               *)
(***************************************************************************)
Nil == [t |-> "nil"]

NilSlice == [isNil |-> TRUE, e |-> <<>>]
Slice(s) == [isNil |-> FALSE, e |-> s]

Error(kind) == [t |-> "error", kind |-> kind]

\* fmt.Errorf("invalid base URL: %w", err)
WrapError(msg, err) == [t |-> "error", kind |-> "url", msg |-> msg, cause |-> err]

RECURSIVE Join(_, _)
\* strings.Join(elems, sep)
Join(elems, sep) ==
    IF Len(elems) = 0 THEN ""
    ELSE IF Len(elems) = 1 THEN elems[1]
    ELSE elems[1] \o sep \o Join(Tail(elems), sep)

Digit(d) == <<"0", "1", "2", "3", "4", "5", "6", "7", "8", "9">>[d + 1]

RECURSIVE FormatNat(_)
FormatNat(n) == IF n < 10 THEN Digit(n) ELSE FormatNat(n \div 10) \o Digit(n % 10)

\* fmt.Sprintf("%d", n)
SprintfD(n) == IF n < 0 THEN "-" \o FormatNat(0 - n) ELSE FormatNat(n)

(***************************************************************************)
(* net/url: the part of url.Parse that decides the inputs of this model    *)
(***************************************************************************)
Letters == {"a", "b", "d", "h", "p", "s", "t"}
Digits == {"0", "1", "8"}

RECURSIVE getSchemeFrom(_, _)
\* url.getScheme, scanning rawURL from position i
getSchemeFrom(rawURL, i) ==
    IF i > Len(rawURL) THEN [scheme |-> <<>>, rest |-> rawURL, err |-> Nil]
    ELSE IF rawURL[i] \in Letters THEN getSchemeFrom(rawURL, i + 1)
    ELSE IF rawURL[i] \in Digits \cup {"+", "-", "."} THEN
        IF i = 1 THEN [scheme |-> <<>>, rest |-> rawURL, err |-> Nil]
        ELSE getSchemeFrom(rawURL, i + 1)
    ELSE IF rawURL[i] = ":" THEN
        IF i = 1 THEN [scheme |-> <<>>, rest |-> <<>>, err |-> Error("missing protocol scheme")]
        ELSE [scheme |-> SubSeq(rawURL, 1, i - 1),
              rest |-> SubSeq(rawURL, i + 1, Len(rawURL)), err |-> Nil]
    ELSE [scheme |-> <<>>, rest |-> rawURL, err |-> Nil]

RECURSIVE FirstSegment(_)
\* strings.Cut(rest, "/"), the part before the first slash
FirstSegment(rest) ==
    IF Len(rest) = 0 \/ rest[1] = "/" THEN <<>>
    ELSE <<rest[1]>> \o FirstSegment(Tail(rest))

Contains(s, c) == \E k \in 1..Len(s) : s[k] = c

\* url.Parse(rawURL): the scheme split and the first-path-segment rule
Parse(rawURL) ==
    LET g == getSchemeFrom(rawURL, 1) IN
    IF g.err # Nil THEN [url |-> Nil, err |-> g.err]
    ELSE IF (Len(g.rest) = 0 \/ g.rest[1] # "/") /\ Len(g.scheme) = 0
            /\ Contains(FirstSegment(g.rest), ":")
    THEN [url |-> Nil, err |-> Error("first path segment in URL cannot contain colon")]
    ELSE [url |-> [t |-> "url", Scheme |-> g.scheme, Rest |-> g.rest], err |-> Nil]

(***************************************************************************)
(* Client                                                                  *)
(***************************************************************************)
NewClient(baseURL) == [baseURL |-> baseURL]

BaseURLs ==
    { <<"h", "t", "t", "p", ":", "/", "/", "s">>,    \* http://s
      <<":", "/", "/", "b", "a", "d">>,              \* ://bad
      <<"1", ":">>,                                   \* 1:
      <<>> }                                           \* the empty override

(***************************************************************************)
(* Search: request construction                                            *)
(***************************************************************************)
NoParams == [k \in {} |-> <<"">>]

\* url.Values.Set(key, value)
ValuesSet(p, key, value) ==
    [k \in DOMAIN p \cup {key} |-> IF k = key THEN <<value>> ELSE p[k]]

SearchOptions(c, e, l, p) ==
    [t |-> "SearchOptions", Categories |-> c, Engines |-> e, Language |-> l, PageNo |-> p]

WithCategories(p, opts) ==
    IF Len(opts.Categories) > 0
    THEN ValuesSet(p, "categories", Join(opts.Categories, ",")) ELSE p

WithEngines(p, opts) ==
    IF Len(opts.Engines) > 0
    THEN ValuesSet(p, "engines", Join(opts.Engines, ",")) ELSE p

WithLanguage(p, opts) ==
    IF opts.Language # "" THEN ValuesSet(p, "language", opts.Language) ELSE p

\* variant: the page number tested against zero instead of being positive
WithPageNoNonZero(p, opts) ==
    IF opts.PageNo # 0 THEN ValuesSet(p, "pageno", SprintfD(opts.PageNo)) ELSE p

WithPageNo(p, opts) ==
    IF opts.PageNo > 0 THEN ValuesSet(p, "pageno", SprintfD(opts.PageNo)) ELSE p

\* the query-parameter set of Search
BuildParams(query, opts) ==
    LET base == ValuesSet(ValuesSet(NoParams, "format", "json"), "q", query) IN
    IF opts # Nil
    THEN WithPageNo(WithLanguage(WithEngines(WithCategories(base, opts), opts), opts), opts)
    ELSE base

\* baseURL.JoinPath("search") with RawQuery = params.Encode()
SearchURL(baseURL, params) ==
    [t |-> "url", Scheme |-> baseURL.Scheme, Rest |-> baseURL.Rest,
     Joined |-> "search", RawQuery |-> params]

(***************************************************************************)
(* JSON documents and encoding/json.Unmarshal into SearchResponse          *)
(***************************************************************************)
JNull == [t |-> "null"]
JStr(s) == [t |-> "str", s |-> s]
JNum(n) == [t |-> "num", n |-> n]
JArr(e) == [t |-> "arr", e |-> e]
JObj(m) == [t |-> "obj", m |-> m]
JInvalid == [t |-> "invalid"]          \* bytes that are not a JSON text

NoMembers == [k \in {} |-> JNull]

TypeError == Error("decode")           \* *json.UnmarshalTypeError
SyntaxError == Error("decode")         \* *json.SyntaxError

\* a string field of a struct: absent key and null leave the zero value
DecodeString(m, key) ==
    IF key \notin DOMAIN m THEN [v |-> "", err |-> Nil]
    ELSE IF m[key].t = "str" THEN [v |-> m[key].s, err |-> Nil]
    ELSE IF m[key].t = "null" THEN [v |-> "", err |-> Nil]
    ELSE [v |-> "", err |-> TypeError]

ResultKeys ==
    {"title", "url", "img_src", "thumbnail_src", "thumbnail", "content", "author", "iframe_src"}

\* the struct SearchResult filled from the members of a JSON object by its tags
SearchResult(m) ==
    [Title        |-> DecodeString(m, "title").v,
     URL          |-> DecodeString(m, "url").v,
     ImgSrc       |-> DecodeString(m, "img_src").v,
     ThumbnailSrc |-> DecodeString(m, "thumbnail_src").v,
     Thumbnail    |-> DecodeString(m, "thumbnail").v,
     Content      |-> DecodeString(m, "content").v,
     Author       |-> DecodeString(m, "author").v,
     IframeSrc    |-> DecodeString(m, "iframe_src").v]

\* one element of "results" into a *SearchResult
DecodeResult(el) ==
    IF el.t = "null" THEN [v |-> Nil, err |-> Nil]
    ELSE IF el.t = "obj" THEN
        [v |-> SearchResult(el.m),
         err |-> IF \E k \in ResultKeys : DecodeString(el.m, k).err # Nil
                 THEN TypeError ELSE Nil]
    ELSE [v |-> Nil, err |-> TypeError]

\* one element of "suggestions" into a string
DecodeSuggestion(el) ==
    IF el.t = "str" THEN [v |-> el.s, err |-> Nil]
    ELSE IF el.t = "null" THEN [v |-> "", err |-> Nil]
    ELSE [v |-> "", err |-> TypeError]

\* variant: the results collected in reverse
DecodeResultsReversed(m) ==
    IF "results" \notin DOMAIN m \/ m["results"].t = "null"
    THEN [v |-> NilSlice, err |-> Nil]
    ELSE IF m["results"].t = "arr" THEN
        LET e == m["results"].e IN
        [v |-> Slice([k \in 1..Len(e) |-> DecodeResult(e[Len(e) + 1 - k]).v]),
         err |-> IF \E k \in 1..Len(e) : DecodeResult(e[k]).err # Nil
                 THEN TypeError ELSE Nil]
    ELSE [v |-> NilSlice, err |-> TypeError]

\* the field Results []*SearchResult `json:"results"`
DecodeResults(m) ==
    IF "results" \notin DOMAIN m \/ m["results"].t = "null"
    THEN [v |-> NilSlice, err |-> Nil]
    ELSE IF m["results"].t = "arr" THEN
        LET e == m["results"].e IN
        [v |-> Slice([k \in 1..Len(e) |-> DecodeResult(e[k]).v]),
         err |-> IF \E k \in 1..Len(e) : DecodeResult(e[k]).err # Nil
                 THEN TypeError ELSE Nil]
    ELSE [v |-> NilSlice, err |-> TypeError]

\* the field Suggestions []string `json:"suggestions,omitempty"`
DecodeSuggestions(m) ==
    IF "suggestions" \notin DOMAIN m \/ m["suggestions"].t = "null"
    THEN [v |-> NilSlice, err |-> Nil]
    ELSE IF m["suggestions"].t = "arr" THEN
        LET e == m["suggestions"].e IN
        [v |-> Slice([k \in 1..Len(e) |-> DecodeSuggestion(e[k]).v]),
         err |-> IF \E k \in 1..Len(e) : DecodeSuggestion(e[k]).err # Nil
                 THEN TypeError ELSE Nil]
    ELSE [v |-> NilSlice, err |-> TypeError]

SearchResponse(results, suggestions) ==
    [t |-> "SearchResponse", Results |-> results, Suggestions |-> suggestions]

\* var searchResp SearchResponse; err = json.Unmarshal(body, &searchResp)
Unmarshal(body) ==
    IF body.t = "invalid" THEN [v |-> SearchResponse(NilSlice, NilSlice), err |-> SyntaxError]
    ELSE IF body.t = "null" THEN [v |-> SearchResponse(NilSlice, NilSlice), err |-> Nil]
    ELSE IF body.t = "obj" THEN
        LET r == DecodeResults(body.m)
            s == DecodeSuggestions(body.m)
        IN [v |-> SearchResponse(r.v, s.v),
            err |-> IF r.err # Nil THEN r.err ELSE s.err]
    ELSE [v |-> SearchResponse(NilSlice, NilSlice), err |-> TypeError]

(***************************************************************************)
(* The inputs and the environment's answers                                *)
(***************************************************************************)
SeqsUpTo(S, n) == UNION {[1..k -> S] : k \in 0..n}

Queries == {"", "golang"}

OptionValues ==
    {Nil} \cup
    {SearchOptions(c, e, l, p) :
        c \in {<<>>, <<"a", "b">>}, e \in {<<>>, <<"google">>},
        l \in {"", "en-US"}, p \in {-1, 0, 3}}

GoResult == JObj(("title" :> JStr("Go")) @@ ("url" :> JStr("https://go.dev")))
RichResult ==
    JObj(("title" :> JStr("Tour")) @@ ("url" :> JStr("https://go.dev/tour"))
         @@ ("content" :> JStr("A tour of Go")) @@ ("author" :> JNull)
         @@ ("score" :> JNum(1)))
BadResult == JObj(("title" :> JNum(1)) @@ ("url" :> JStr("https://go.dev")))

ResultElements == {GoResult, RichResult, JNull, BadResult}
SuggestionElements == {JStr("golang tutorial"), JNum(1)}

ResultsMembers ==
    {NoMembers, "results" :> JNull, "results" :> JStr("none")}
    \cup {"results" :> JArr(e) : e \in SeqsUpTo(ResultElements, MaxResults)}

SuggestionsMembers ==
    {NoMembers, "suggestions" :> JStr("none")}
    \cup {"suggestions" :> JArr(e) : e \in SeqsUpTo(SuggestionElements, MaxSuggestions)}

Bodies ==
    {JInvalid, JNull, JArr(<<>>)}
    \cup {JObj(r @@ s) : r \in ResultsMembers, s \in SuggestionsMembers}

StatusCodes == {200, 500}

\* *http.Response: the status and the body stream (what reading it will yield)
Response(status, doc, readable) ==
    [t |-> "Response", StatusCode |-> status,
     Body |-> [doc |-> doc, readable |-> readable, closed |-> 0]]

\* what http.DefaultClient.Do can return
Outcomes(bodies) ==
    {[resp |-> Nil, err |-> Error("transport")]}
    \cup {[resp |-> Response(st, b, TRUE), err |-> Nil] : st \in StatusCodes, b \in bodies}
    \cup {[resp |-> Response(st, JInvalid, FALSE), err |-> Nil] : st \in StatusCodes}

(***************************************************************************)
(* Search: one frame of locals per invocation                              *)
(***************************************************************************)
NewFrame ==
    [pc |-> "idle", query |-> "", opts |-> Nil,
     baseURL |-> Nil, params |-> NoParams, searchURL |-> Nil, req |-> Nil,
     resp |-> Nil, body |-> Nil, searchResp |-> Nil, err |-> Nil,
     defers |-> <<>>,                      \* the deferred functions, last in first out
     returned |-> [v |-> Nil, err |-> Nil],\* the operands of the return statement
     answers |-> [req |-> Nil, do |-> Nil],\* what NewRequest and Do answered
     log |-> <<>>]                         \* the library functions invoked so far, in order

Logged(f, event) == [f EXCEPT !.log = Append(f.log, event)]

\* return v, err
ReturnStmt(f, v, err) == [f EXCEPT !.returned = [v |-> v, err |-> err], !.pc = "exit"]

\* func (c *Client) Search(query string, opts *SearchOptions)
Enter(query, opts) == [NewFrame EXCEPT !.pc = "parse", !.query = query, !.opts = opts]

\* variant: the parse error dropped, the call goes on with an empty URL
StepParseUnchecked(f, c) ==
    LET r == Parse(c.baseURL)
        g == Logged(f, "parse")
    IN [g EXCEPT !.baseURL = IF r.err # Nil
                             THEN [t |-> "url", Scheme |-> <<>>, Rest |-> <<>>]
                             ELSE r.url,
                 !.pc = "build"]

\* baseURL, err := url.Parse(c.baseURL); if err != nil { return nil, ... }
StepParse(f, c) ==
    LET r == Parse(c.baseURL)
        g == Logged([f EXCEPT !.err = r.err], "parse")
    IN IF r.err # Nil
       THEN ReturnStmt(g, Nil, WrapError("invalid base URL", r.err))
       ELSE [g EXCEPT !.baseURL = r.url, !.pc = "build"]

\* params := url.Values{} ... searchURL.RawQuery = params.Encode()
StepBuild(f) ==
    LET p == BuildParams(f.query, f.opts)
    IN [f EXCEPT !.params = p, !.searchURL = SearchURL(f.baseURL, p), !.pc = "newreq"]

\* variant: the construction error is not tested before the request is sent
StepNewRequestUnchecked(f, e) ==
    LET g == Logged([f EXCEPT !.err = e, !.answers.req = e], "newreq")
    IN [g EXCEPT !.req = [t |-> "Request", Method |-> "GET", URL |-> f.searchURL],
                 !.pc = "do"]

\* req, err := http.NewRequest(http.MethodGet, searchURL.String(), nil)
StepNewRequest(f, e) ==
    LET g == Logged([f EXCEPT !.err = e, !.answers.req = e], "newreq")
    IN IF e # Nil
       THEN ReturnStmt(g, Nil, e)
       ELSE [g EXCEPT !.req = [t |-> "Request", Method |-> "GET", URL |-> f.searchURL],
                      !.pc = "do"]

\* variant: a failed Do is tried a second time
StepDoRetry(f, out) ==
    LET g == Logged([f EXCEPT !.err = out.err, !.answers.do = out], "do")
    IN IF out.err # Nil
       THEN ReturnStmt(Logged(g, "do"), Nil, out.err)
       ELSE [g EXCEPT !.resp = out.resp, !.defers = Append(f.defers, "resp.Body.Close"),
                      !.pc = "read"]

\* variant: a status of 400 and above is turned into an error
StepDoCheckStatus(f, out) ==
    LET g == Logged([f EXCEPT !.err = out.err, !.answers.do = out], "do")
    IN IF out.err # Nil
       THEN ReturnStmt(g, Nil, out.err)
       ELSE IF out.resp.StatusCode >= 400
       THEN ReturnStmt([g EXCEPT !.resp = out.resp,
                                 !.defers = Append(f.defers, "resp.Body.Close"),
                                 !.err = Error("status")], Nil, Error("status"))
       ELSE [g EXCEPT !.resp = out.resp, !.defers = Append(f.defers, "resp.Body.Close"),
                      !.pc = "read"]

\* resp, err := http.DefaultClient.Do(req); ...; defer resp.Body.Close()
StepDo(f, out) ==
    LET g == Logged([f EXCEPT !.err = out.err, !.answers.do = out], "do")
    IN IF out.err # Nil
       THEN ReturnStmt(g, Nil, out.err)
       ELSE [g EXCEPT !.resp = out.resp, !.defers = Append(f.defers, "resp.Body.Close"),
                      !.pc = "read"]

\* variant: the read-error path closes the body itself, on top of the defer
StepReadAllExplicitClose(f) ==
    LET ok == f.resp.Body.readable /\ f.resp.Body.closed = 0
        e == IF ok THEN Nil ELSE Error("read")
        g == Logged([f EXCEPT !.err = e], "read")
    IN IF e # Nil
       THEN ReturnStmt(Logged([g EXCEPT !.resp.Body.closed = f.resp.Body.closed + 1],
                              "close"), Nil, e)
       ELSE [g EXCEPT !.body = f.resp.Body.doc, !.pc = "unmarshal"]

\* body, err := io.ReadAll(resp.Body)
StepReadAll(f) ==
    LET ok == f.resp.Body.readable /\ f.resp.Body.closed = 0
        e == IF ok THEN Nil ELSE Error("read")
        g == Logged([f EXCEPT !.err = e], "read")
    IN IF e # Nil
       THEN ReturnStmt(g, Nil, e)
       ELSE [g EXCEPT !.body = f.resp.Body.doc, !.pc = "unmarshal"]

\* variant: the decoded value is returned together with the decode error
StepUnmarshalPartial(f) ==
    LET r == Unmarshal(f.body)
        g == Logged([f EXCEPT !.err = r.err, !.searchResp = r.v], "decode")
    IN ReturnStmt(g, r.v, r.err)

\* err = json.Unmarshal(body, &searchResp); ...; return &searchResp, nil
StepUnmarshal(f) ==
    LET r == Unmarshal(f.body)
        g == Logged([f EXCEPT !.err = r.err, !.searchResp = r.v], "decode")
    IN IF r.err # Nil
       THEN ReturnStmt(g, Nil, r.err)
       ELSE ReturnStmt(g, r.v, Nil)

\* the deferred resp.Body.Close() runs when Search returns
StepDeferred(f) ==
    Logged([f EXCEPT !.defers = SubSeq(f.defers, 1, Len(f.defers) - 1),
                     !.resp.Body.closed = f.resp.Body.closed + 1], "close")

(***************************************************************************)
(* pkg/env                                                                 *)
(***************************************************************************)
Unset == [set |-> FALSE, value |-> ""]
SetTo(v) == [set |-> TRUE, value |-> v]

\* os.LookupEnv(key)
LookupEnv(e, key) == [value |-> e[key].value, ok |-> e[key].set]

\* variant: an empty value is taken for an unset variable
GetVarNonEmpty(e, key, fallback) ==
    LET r == LookupEnv(e, key) IN IF r.ok /\ r.value # "" THEN r.value ELSE fallback

\* func GetVar(key, fallback string) string
GetVar(e, key, fallback) ==
    LET r == LookupEnv(e, key) IN IF r.ok THEN r.value ELSE fallback

EnvKeys == {"SEARXNG_URL", "HOME", "LANG"}
EnvValues == {"", "http://searx:8888"}
Fallbacks == {"", "http://localhost:8080", "http://searx:8888"}

NoLookup == [called |-> FALSE, key |-> "", fallback |-> "", value |-> ""]

(***************************************************************************)
(* Actions                                                                 *)
(***************************************************************************)
Call(i, queries, options) ==
    /\ frame[i].pc = "idle"
    /\ \E q \in queries, o \in options : frame' = [frame EXCEPT ![i] = Enter(q, o)]
    /\ UNCHANGED <<client, env, lookup>>

ParseBase(i) ==
    /\ frame[i].pc = "parse"
    /\ frame' = [frame EXCEPT ![i] = StepParse(frame[i], client)]
    /\ UNCHANGED <<client, env, lookup>>

\* variant: the joined URL is stored back into the client
BuildURLCaching(i) ==
    /\ frame[i].pc = "build"
    /\ frame' = [frame EXCEPT ![i] = StepBuild(frame[i])]
    /\ client' = [client EXCEPT !.baseURL = client.baseURL \o <<"/", "s">>]
    /\ UNCHANGED <<env, lookup>>

BuildURL(i) ==
    /\ frame[i].pc = "build"
    /\ frame' = [frame EXCEPT ![i] = StepBuild(frame[i])]
    /\ UNCHANGED <<client, env, lookup>>

NewRequest(i) ==
    /\ frame[i].pc = "newreq"
    /\ \E e \in {Nil, Error("request")} :
           frame' = [frame EXCEPT ![i] = StepNewRequest(frame[i], e)]
    /\ UNCHANGED <<client, env, lookup>>

Do(i, bodies) ==
    /\ frame[i].pc = "do"
    /\ \E out \in Outcomes(bodies) : frame' = [frame EXCEPT ![i] = StepDo(frame[i], out)]
    /\ UNCHANGED <<client, env, lookup>>

ReadAll(i) ==
    /\ frame[i].pc = "read"
    /\ frame' = [frame EXCEPT ![i] = StepReadAll(frame[i])]
    /\ UNCHANGED <<client, env, lookup>>

Decode(i) ==
    /\ frame[i].pc = "unmarshal"
    /\ frame' = [frame EXCEPT ![i] = StepUnmarshal(frame[i])]
    /\ UNCHANGED <<client, env, lookup>>

RunDeferred(i) ==
    /\ frame[i].pc = "exit"
    /\ frame[i].defers # <<>>
    /\ frame' = [frame EXCEPT ![i] = StepDeferred(frame[i])]
    /\ UNCHANGED <<client, env, lookup>>

Return(i) ==
    /\ frame[i].pc = "exit"
    /\ frame[i].defers = <<>>
    /\ frame' = [frame EXCEPT ![i].pc = "done"]
    /\ UNCHANGED <<client, env, lookup>>

GetVarCall(key, fallback) ==
    /\ lookup' = [called |-> TRUE, key |-> key, fallback |-> fallback,
                  value |-> GetVar(env, key, fallback)]
    /\ UNCHANGED <<client, frame, env>>

(***************************************************************************)
(* Specifications                                                          *)
(***************************************************************************)
\* one invocation, every input and every answer of the environment
Init ==
    /\ \E b \in BaseURLs : client = NewClient(b)
    /\ frame = [i \in Calls |-> NewFrame]
    /\ env = [k \in EnvKeys |-> Unset]
    /\ lookup = NoLookup

Next ==
    \E i \in {1} :
        \/ Call(i, Queries, OptionValues)
        \/ ParseBase(i)
        \/ BuildURL(i)
        \/ NewRequest(i)
        \/ Do(i, Bodies)
        \/ ReadAll(i)
        \/ Decode(i)
        \/ RunDeferred(i)
        \/ Return(i)

Spec == Init /\ [][Next]_vars

\* several invocations on one Client, interleaved
ConcQueries == {"golang"}
ConcOptions == {Nil, SearchOptions(<<"a", "b">>, <<>>, "en-US", 3)}
ConcBodies == {JInvalid, JObj("results" :> JArr(<<GoResult>>))}
ConcBaseURLs == {<<"h", "t", "t", "p", ":", "/", "/", "s">>, <<":", "/", "/", "b", "a", "d">>}

InitConc ==
    /\ \E b \in ConcBaseURLs : client = NewClient(b)
    /\ frame = [i \in Calls |-> NewFrame]
    /\ env = [k \in EnvKeys |-> Unset]
    /\ lookup = NoLookup

NextConc ==
    \E i \in Calls :
        \/ Call(i, ConcQueries, ConcOptions)
        \/ ParseBase(i)
        \/ BuildURL(i)
        \/ NewRequest(i)
        \/ Do(i, ConcBodies)
        \/ ReadAll(i)
        \/ Decode(i)
        \/ RunDeferred(i)
        \/ Return(i)

SpecConc == InitConc /\ [][NextConc]_vars

\* the environment resolver, every environment
InitEnv ==
    /\ client = NewClient(<<>>)
    /\ frame = [i \in Calls |-> NewFrame]
    /\ env \in [EnvKeys -> {Unset} \cup {SetTo(v) : v \in EnvValues}]
    /\ lookup = NoLookup

NextEnv == \E k \in EnvKeys, fb \in Fallbacks : GetVarCall(k, fb)

SpecEnv == InitEnv /\ [][NextEnv]_vars

(***************************************************************************)
(* Vocabulary of the properties                                            *)
(***************************************************************************)
Finished(f) == f.pc \in {"exit", "done"}     \* the return statement has executed
Done(f) == f.pc = "done"                     \* Search has returned to its caller

Count(log, event) == Cardinality({k \in 1..Len(log) : log[k] = event})
Positions(log, event) == {k \in 1..Len(log) : log[k] = event}

RECURSIVE WithoutClose(_)
WithoutClose(log) ==
    IF Len(log) = 0 THEN <<>>
    ELSE IF log[1] = "close" THEN WithoutClose(Tail(log))
    ELSE <<log[1]>> \o WithoutClose(Tail(log))

IsPrefix(a, b) == Len(a) <= Len(b) /\ \A k \in 1..Len(a) : a[k] = b[k]

Stages == <<"parse", "newreq", "do", "read", "decode">>

TransportSucceeded(f) == f.answers.do # Nil /\ f.answers.do.err = Nil

(***************************************************************************)
(* C1  Whatever the outcome of the failure points of Search, exactly one   *)
(* of the two returned values is non-nil: a failed call returns (nil, err) *)
(* with err non-nil, a successful call returns (resp, nil) with resp       *)
(* non-nil.                                                                *)
(***************************************************************************)
C1_ExactlyOneReturnValue ==
    \A i \in Calls :
        Finished(frame[i]) =>
            /\ (frame[i].returned.v = Nil) # (frame[i].returned.err = Nil)
            /\ frame[i].err # Nil => (frame[i].returned.v = Nil /\ frame[i].returned.err # Nil)
            /\ frame[i].err = Nil => (frame[i].returned.v # Nil /\ frame[i].returned.err = Nil)

C1_Witness ==
    /\ Done(frame[1])
    /\ frame[1].returned.err = TypeError
    /\ frame[1].searchResp.Results.e # <<>>
    /\ frame[1].returned.v = Nil

(***************************************************************************)
(* C2  When the bound base URL does not parse, Search returns an error at  *)
(* once: no HTTP request is created and none is sent.                      *)
(***************************************************************************)
C2_BadBaseURLNoRequest ==
    \A i \in Calls :
        (Parse(client.baseURL).err # Nil /\ frame[i].pc \notin {"idle", "parse"}) =>
            /\ Finished(frame[i])
            /\ frame[i].returned.v = Nil
            /\ frame[i].returned.err # Nil
            /\ frame[i].returned.err.kind = "url"
            /\ frame[i].log = <<"parse">>
            /\ frame[i].req = Nil
            /\ frame[i].resp = Nil

C2_Witness ==
    /\ client.baseURL = <<":", "/", "/", "b", "a", "d">>
    /\ Done(frame[1])
    /\ frame[1].opts # Nil
    /\ frame[1].returned.err.kind = "url"

(***************************************************************************)
(* C3  (as stated) Every completed invocation of Search has issued exactly *)
(* one HTTP request, whatever its inputs and outcome.                      *)
(***************************************************************************)
C3_ExactlyOneRequestAlways ==
    \A i \in Calls : Done(frame[i]) => Count(frame[i].log, "do") = 1

(***************************************************************************)
(* C3  (amended) Every completed invocation of Search has issued at most   *)
(* one HTTP request: exactly one when the base URL parsed and the request  *)
(* was constructed, none when either of these failed.                      *)
(***************************************************************************)
C3_AtMostOneRequest ==
    \A i \in Calls :
        /\ Count(frame[i].log, "do") <= 1
        /\ Done(frame[i]) =>
              (Count(frame[i].log, "do") = 1
                  <=> (Parse(client.baseURL).err = Nil /\ frame[i].answers.req = Nil))
        /\ Done(frame[i]) =>
              (Count(frame[i].log, "do") = 0
                  <=> (frame[i].returned.err # Nil
                       /\ frame[i].returned.err.kind \in {"url", "request"}))

C3_Witness ==
    /\ Done(frame[1])
    /\ Count(frame[1].log, "do") = 1
    /\ frame[1].returned.err = Error("transport")

(***************************************************************************)
(* C4  The parameter set always holds format=json and q=<query>, and holds *)
(* categories, engines, language, pageno exactly when opts is non-nil and  *)
(* the field is non-empty (PageNo > 0); nothing else, and no parameter     *)
(* with an empty value for an absent input.                                *)
(***************************************************************************)
C4_ParameterSet ==
    \A i \in Calls :
        frame[i].searchURL # Nil =>
            LET p == frame[i].searchURL.RawQuery
                o == frame[i].opts
            IN /\ p = frame[i].params
               /\ DOMAIN p \subseteq {"format", "q", "categories", "engines", "language", "pageno"}
               /\ "format" \in DOMAIN p /\ p["format"] = <<"json">>
               /\ "q" \in DOMAIN p /\ p["q"] = <<frame[i].query>>
               /\ "categories" \in DOMAIN p <=> (o # Nil /\ o.Categories # <<>>)
               /\ "engines" \in DOMAIN p <=> (o # Nil /\ o.Engines # <<>>)
               /\ "language" \in DOMAIN p <=> (o # Nil /\ o.Language # "")
               /\ "pageno" \in DOMAIN p <=> (o # Nil /\ o.PageNo > 0)
               /\ "categories" \in DOMAIN p => p["categories"] = <<Join(o.Categories, ",")>>
               /\ "engines" \in DOMAIN p => p["engines"] = <<Join(o.Engines, ",")>>
               /\ "language" \in DOMAIN p => p["language"] = <<o.Language>>
               /\ "pageno" \in DOMAIN p => p["pageno"] = <<SprintfD(o.PageNo)>>
               /\ "language" \in DOMAIN p => p["language"] # <<"">>
               /\ "pageno" \in DOMAIN p => p["pageno"] # <<"">>

C4_Witness ==
    /\ frame[1].searchURL # Nil
    /\ frame[1].opts # Nil
    /\ frame[1].opts.PageNo < 0
    /\ frame[1].opts.Language = ""
    /\ frame[1].opts.Categories = <<"a", "b">>
    /\ DOMAIN frame[1].params = {"format", "q", "categories"}
    /\ frame[1].params["categories"] = <<"a,b">>

(***************************************************************************)
(* C5  The outcome of Search does not depend on the HTTP status code: two  *)
(* invocations that received the same body (same bytes, same read          *)
(* outcome) with different status codes return the same response and       *)
(* error; a non-2xx response yields an error only when its body fails to   *)
(* be read or to decode.                                                   *)
(***************************************************************************)
Is2xx(status) == status >= 200 /\ status <= 299

StringOrNull(v) == v.t \in {"str", "null"}

\* the JSON shape of section 6 of the specification (null stands for absent)
ExpectedShape(doc) ==
    \/ doc.t = "null"
    \/ /\ doc.t = "obj"
       /\ "results" \in DOMAIN doc.m =>
              \/ doc.m["results"].t = "null"
              \/ /\ doc.m["results"].t = "arr"
                 /\ \A k \in 1..Len(doc.m["results"].e) :
                        LET el == doc.m["results"].e[k] IN
                        \/ el.t = "null"
                        \/ /\ el.t = "obj"
                           /\ \A key \in DOMAIN el.m \cap ResultKeys : StringOrNull(el.m[key])
       /\ "suggestions" \in DOMAIN doc.m =>
              \/ doc.m["suggestions"].t = "null"
              \/ /\ doc.m["suggestions"].t = "arr"
                 /\ \A k \in 1..Len(doc.m["suggestions"].e) :
                        StringOrNull(doc.m["suggestions"].e[k])

C5_StatusIndependent ==
    \A i \in Calls :
        /\ \A j \in Calls :
              ( /\ Done(frame[i]) /\ Done(frame[j])
                /\ TransportSucceeded(frame[i]) /\ TransportSucceeded(frame[j])
                /\ frame[i].answers.do.resp.Body = frame[j].answers.do.resp.Body )
              => frame[i].returned = frame[j].returned
        /\ ( /\ Done(frame[i])
             /\ TransportSucceeded(frame[i])
             /\ ~Is2xx(frame[i].answers.do.resp.StatusCode) )
           => /\ frame[i].returned.err # Nil
                  <=> \/ ~frame[i].answers.do.resp.Body.readable
                      \/ ~ExpectedShape(frame[i].answers.do.resp.Body.doc)
              /\ frame[i].returned.err # Nil
                  => frame[i].returned.err \in {Error("read"), Error("decode")}

C5_Witness ==
    /\ Done(frame[1]) /\ Done(frame[2])
    /\ TransportSucceeded(frame[1]) /\ TransportSucceeded(frame[2])
    /\ frame[1].answers.do.resp.StatusCode = 200
    /\ frame[2].answers.do.resp.StatusCode = 500
    /\ frame[1].answers.do.resp.Body = frame[2].answers.do.resp.Body
    /\ frame[2].returned.v # Nil

(***************************************************************************)
(* C6  Once the transport step has produced a response, its body is closed *)
(* exactly once before Search returns, on every exit path, and never       *)
(* before the body read has finished.                                      *)
(***************************************************************************)
C6_BodyClosedOnceAfterRead ==
    \A i \in Calls :
        frame[i].resp # Nil =>
            /\ frame[i].resp.Body.closed = Count(frame[i].log, "close")
            /\ frame[i].resp.Body.closed <= 1
            /\ Done(frame[i]) => frame[i].resp.Body.closed = 1
            /\ frame[i].resp.Body.closed > 0 =>
                  /\ Finished(frame[i])
                  /\ \A c \in Positions(frame[i].log, "close") :
                        \E r \in Positions(frame[i].log, "read") : r < c
            /\ frame[i].pc \in {"read", "unmarshal"} => frame[i].resp.Body.closed = 0

C6_Witness ==
    /\ Done(frame[1])
    /\ frame[1].returned.err = Error("read")
    /\ frame[1].resp.Body.closed = 1
    /\ frame[1].log = <<"parse", "newreq", "do", "read", "close">>

(***************************************************************************)
(* C7  Invocations of Search on one Client, interleaved in any way: the    *)
(* bound base URL is never modified, each invocation issues its own        *)
(* request built from its own inputs, and each returns what it would       *)
(* return running alone on the same inputs and the same answers.           *)
(***************************************************************************)
AfterDeferred(f) == IF f.defers # <<>> THEN StepDeferred(f) ELSE f

\* Search run from entry to return with nothing else running
SearchAlone(c, query, opts, answers) ==
    LET f1 == StepParse(Enter(query, opts), c) IN
    IF Finished(f1) THEN f1.returned ELSE
    LET f2 == StepNewRequest(StepBuild(f1), answers.req) IN
    IF Finished(f2) THEN f2.returned ELSE
    LET f3 == StepDo(f2, answers.do) IN
    IF Finished(f3) THEN f3.returned ELSE
    LET f4 == StepReadAll(f3) IN
    IF Finished(f4) THEN AfterDeferred(f4).returned ELSE
    AfterDeferred(StepUnmarshal(f4)).returned

C7_OwnRequestOwnResult ==
    \A i \in Calls :
        /\ Count(frame[i].log, "do") <= 1
        /\ frame[i].req # Nil =>
              /\ frame[i].req.URL.Scheme = Parse(client.baseURL).url.Scheme
              /\ frame[i].req.URL.Rest = Parse(client.baseURL).url.Rest
              /\ frame[i].req.URL.RawQuery = BuildParams(frame[i].query, frame[i].opts)
        /\ Done(frame[i]) =>
              frame[i].returned =
                  SearchAlone(client, frame[i].query, frame[i].opts, frame[i].answers)

C7_Concurrent == [][client' = client]_vars /\ []C7_OwnRequestOwnResult

C7_Witness ==
    /\ Done(frame[1]) /\ Done(frame[2])
    /\ frame[1].opts # frame[2].opts
    /\ frame[1].returned.v # Nil
    /\ frame[2].returned.err = Error("decode")
    /\ frame[1].log = frame[2].log

(***************************************************************************)
(* C8  The failure points are passed in the order URL parse, transport     *)
(* (request construction, then Do), body read, decode; the first failure   *)
(* ends the call.  A transport failure is returned without a second        *)
(* request and without reading or decoding a body; a body is read only     *)
(* after the transport step succeeded.                                     *)
(***************************************************************************)
StageOf(kind) ==
    CASE kind = "url" -> "parse"
      [] kind = "request" -> "newreq"
      [] kind = "transport" -> "do"
      [] kind = "read" -> "read"
      [] kind = "decode" -> "decode"

C8_StagesInOrder ==
    \A i \in Calls :
        LET l == WithoutClose(frame[i].log) IN
        /\ IsPrefix(l, Stages)
        /\ (Finished(frame[i]) /\ frame[i].returned.err # Nil) =>
              l[Len(l)] = StageOf(frame[i].returned.err.kind)
        /\ (Finished(frame[i]) /\ frame[i].returned.err # Nil
              /\ frame[i].returned.err.kind \in {"request", "transport"}) =>
              /\ Count(frame[i].log, "do") <= 1
              /\ Count(frame[i].log, "read") = 0
              /\ Count(frame[i].log, "decode") = 0
              /\ frame[i].body = Nil
        /\ Count(frame[i].log, "read") > 0 => TransportSucceeded(frame[i])
        /\ Count(frame[i].log, "decode") > 0 => frame[i].body # Nil

C8_FirstFailureEnds ==
    \A i \in Calls :
        frame[i].err # Nil =>
            /\ WithoutClose(frame'[i].log) = WithoutClose(frame[i].log)
            /\ frame'[i].returned = frame[i].returned
            /\ frame'[i].returned.err # Nil

C8_Order == []C8_StagesInOrder /\ [][C8_FirstFailureEnds]_vars

C8_Witness ==
    /\ Done(frame[1])
    /\ frame[1].returned.err = Error("transport")
    /\ frame[1].log = <<"parse", "newreq", "do">>

(***************************************************************************)
(* C9  When Search succeeds, Results is the sequence of results of the     *)
(* body, element for element in the same order, and Suggestions likewise:  *)
(* nothing dropped, duplicated, merged or reordered.                       *)
(***************************************************************************)
ArrayOf(doc, key) ==
    IF doc.t = "obj" /\ key \in DOMAIN doc.m /\ doc.m[key].t = "arr"
    THEN doc.m[key].e ELSE <<>>

Text(m, key) == IF key \in DOMAIN m /\ m[key].t = "str" THEN m[key].s ELSE ""

SameResult(el, r) ==
    IF el.t = "null" THEN r = Nil
    ELSE /\ r # Nil
         /\ r.Title = Text(el.m, "title")
         /\ r.URL = Text(el.m, "url")
         /\ r.ImgSrc = Text(el.m, "img_src")
         /\ r.ThumbnailSrc = Text(el.m, "thumbnail_src")
         /\ r.Thumbnail = Text(el.m, "thumbnail")
         /\ r.Content = Text(el.m, "content")
         /\ r.Author = Text(el.m, "author")
         /\ r.IframeSrc = Text(el.m, "iframe_src")

C9_SequencesPreserved ==
    \A i \in Calls :
        (Done(frame[i]) /\ frame[i].returned.err = Nil) =>
            LET doc == frame[i].answers.do.resp.Body.doc
                src == ArrayOf(doc, "results")
                sug == ArrayOf(doc, "suggestions")
                out == frame[i].returned.v
            IN /\ Len(out.Results.e) = Len(src)
               /\ \A k \in 1..Len(src) : SameResult(src[k], out.Results.e[k])
               /\ Len(out.Suggestions.e) = Len(sug)
               /\ \A k \in 1..Len(sug) :
                     out.Suggestions.e[k] = IF sug[k].t = "str" THEN sug[k].s ELSE ""

C9_Witness ==
    /\ Done(frame[1])
    /\ frame[1].returned.err = Nil
    /\ frame[1].answers.do.resp.Body.doc
          = JObj(("results" :> JArr(<<RichResult, GoResult>>))
                 @@ ("suggestions" :> JArr(<<JStr("golang tutorial")>>)))
    /\ frame[1].returned.v.Results.e[1].Title = "Tour"
    /\ frame[1].returned.v.Results.e[2].Title = "Go"
    /\ frame[1].returned.v.Suggestions.e = <<"golang tutorial">>

(***************************************************************************)
(* C10  GetVar(key, fallback) returns the fallback when the variable is    *)
(* unset and the variable's value when it is set, the empty string         *)
(* included; it does not change the environment.                           *)
(***************************************************************************)
C10_LookupResult ==
    lookup.called =>
        /\ ~env[lookup.key].set => lookup.value = lookup.fallback
        /\ env[lookup.key].set => lookup.value = env[lookup.key].value

C10_GetVar == []C10_LookupResult /\ [][env' = env]_vars

C10_Witness ==
    /\ lookup.called
    /\ env[lookup.key] = SetTo("")
    /\ lookup.fallback = "http://localhost:8080"
    /\ lookup.value = ""

====
